---- MODULE Spec2Model ----
(***************************************************************************)
(* A model of the behavioural core of the React-Native template:          *)
(*                                                                         *)
(*   - getActiveRouteName, useBackButtonHandler, useNavigationPersistence  *)
(*     and the RootNavigation handle                                       *)
(*     (src/src/navigation/helpers/navigationUtilities.ts);                *)
(*   - the draggable bottom sheet of the login screen                      *)
(*     (src/src/screens/Login/index.tsx).                                  *)
(*                                                                         *)
(* The subsystems share no state, so each has a specification of its own: *)
(*   RouteSpec            getActiveRouteName on bounded navigation trees   *)
(*   Spec, FairSpec       useNavigationPersistence and the storage         *)
(*   BackSpec             useBackButtonHandler, RootNavigation, the host   *)
(*   SheetSpec, FairSheetSpec   the bottom-sheet gesture handler           *)
(* A specification parks the variables of the other subsystems.            *)
(***************************************************************************)
EXTENDS Integers, Sequences, FiniteSets, TLC

VARIABLES
    \* ---- getActiveRouteName applied to an input
    arState,                \* the argument
    arResult,               \* the returned name, NoName before the call
    \* ---- useNavigationPersistence
    policy,                 \* Config.persistNavigation
    isDev,                  \* __DEV__
    hookMounted,            \* isMounted()
    isRestored,             \* useState(initNavState)
    initialNavigationState, \* useState(): <<>> when unset, else <<state>>
    routeNameRef,           \* routeNameRef.current
    effectPending,          \* the [isRestored] effect is scheduled
    readInFlight,           \* restoreState awaits storage.getItem
    startupRestore,         \* the effect has invoked restoreState
    readOutcome,            \* how the last read ended
    rejected,               \* the promise of restoreState rejected
    storage,                \* the key-value store: key -> <<>> or <<state>>
    delivered,              \* the last state given to onNavigationStateChange
    logged,                 \* what the last onNavigationStateChange printed
    \* ---- useBackButtonHandler, RootNavigation and the navigation host
    platform,               \* Platform.OS
    lifecycle,              \* of the component that uses useBackButtonHandler
    canExit,                \* the canExit argument of the latest render
    canExitRef,             \* canExitRef.current
    listeners,              \* hardwareBackPress listeners now registered
    addCalls,               \* BackHandler.addEventListener calls so far
    removeCalls,            \* BackHandler.removeEventListener calls so far
    hostReady,              \* navigationRef.isReady()
    rootState,              \* navigationRef.getRootState()
    hostCanGoBack,          \* navigationRef.canGoBack()
    hostMisuse,             \* a host method other than isReady ran while not ready
    appRunning,             \* FALSE after BackHandler.exitApp()
    last,                   \* what the last handler or handle call did
    \* ---- the bottom sheet
    sheetMounted,           \* the entrance effect has run
    translateY,             \* translateY.value
    scale,                  \* scale.value, in units of 1/ScaleDivisor
    startY,                 \* ctx.startY
    phase,                  \* "idle" or "active" (between onStart and onEnd)
    animY,                  \* the animation driving translateY
    animS,                  \* the animation driving scale
    ev,                     \* the last event handled
    dy                      \* event.translationY of the last move

routeVars == <<arState, arResult>>
persistVars == <<policy, isDev, hookMounted, isRestored, initialNavigationState,
                 routeNameRef, effectPending, readInFlight, startupRestore,
                 readOutcome, rejected, storage, delivered, logged>>
backVars == <<platform, lifecycle, canExit, canExitRef, listeners, addCalls,
              removeCalls, hostReady, rootState, hostCanGoBack, hostMisuse,
              appRunning, last>>
sheetVars == <<sheetMounted, translateY, scale, startY, phase, animY, animS, ev, dy>>
vars == <<routeVars, persistVars, backVars, sheetVars>>

-----------------------------------------------------------------------------
(* Bounds of the model *)

\* nesting levels below the root navigator in the inputs of getActiveRouteName
MaxDepth == 1
\* a drag reports translations of -MaxDragSteps*Grid .. MaxDragSteps*Grid
MaxDragSteps == 2
\* spacing of the sampled translations and animation frames
Grid == 100
\* drags that would take the sheet further than this from rest are not sampled
MaxOffset == 500

-----------------------------------------------------------------------------
(* Navigation states: NavigationState | PartialState<NavigationState> *)

NoName == "<undefined>"
\* state.index is absent (a PartialState)
NoIndex == -1

Leaf(name) == [name |-> name, state |-> <<>>]
Parent(name, st) == [name |-> name, state |-> <<st>>]
NavState(index, routes) == [index |-> index, routes |-> routes]

\* the route names used at each nesting level, by position
LevelNames == << <<"Tab", "Login">>, <<"Home", "Settings">>, <<"Feed", "Profile">> >>
NameAt(level, pos) ==
    LevelNames[IF level <= Len(LevelNames) THEN level ELSE Len(LevelNames)][pos]

RECURSIVE NavStates(_, _)
NavStates(depth, level) ==
    LET below == IF depth = 0 THEN {} ELSE NavStates(depth - 1, level + 1)
        RoutesAt(pos) == {Leaf(NameAt(level, pos))}
                             \cup {Parent(NameAt(level, pos), s) : s \in below}
    IN  {NavState(i, <<a>>) : i \in {NoIndex, 0}, a \in RoutesAt(1)}
        \cup {NavState(i, <<a, b>>) :
                 i \in {NoIndex, 0, 1}, a \in RoutesAt(1), b \in RoutesAt(2)}

RECURSIVE getActiveRouteName_FirstRoute(_)
getActiveRouteName_FirstRoute(state) ==
    LET route == state.routes[1]
    IN  IF route.state = <<>>
        THEN route.name
        ELSE getActiveRouteName_FirstRoute(route.state[1])

RECURSIVE getActiveRouteName(_)
getActiveRouteName(state) ==
    LET route == state.routes[(IF state.index = NoIndex THEN 0 ELSE state.index) + 1]
    IN  IF route.state = <<>>
        THEN route.name
        ELSE getActiveRouteName(route.state[1])

\* the example of the documentation: Tab > (Home, Settings), Settings selected
ExampleState ==
    NavState(0, <<Parent("Tab", NavState(1, <<Leaf("Home"), Leaf("Settings")>>))>>)
HomeState ==
    NavState(0, <<Parent("Tab", NavState(NoIndex, <<Leaf("Home"), Leaf("Settings")>>))>>)
LoginState ==
    NavState(1, <<Parent("Tab", NavState(0, <<Leaf("Home"), Leaf("Settings")>>)),
                  Leaf("Login")>>)
\* Settings selected as in ExampleState, in a tree with a second root route
ExampleWithLogin ==
    NavState(NoIndex, <<Parent("Tab", NavState(1, <<Leaf("Home"), Leaf("Settings")>>)),
                        Leaf("Login")>>)
\* the navigation trees the host moves between
HostStates == {ExampleState, ExampleWithLogin, HomeState, LoginState}
ActiveNames == {"Home", "Settings", "Login"}

-----------------------------------------------------------------------------
(* RouteSpec: getActiveRouteName applied to one input *)

RouteInit ==
    /\ arState \in NavStates(MaxDepth, 1)
    /\ arResult = NoName

RouteParked ==
    /\ arState = ExampleState
    /\ arResult = NoName

CallGetActiveRouteName ==
    /\ arResult = NoName
    /\ arResult' = getActiveRouteName(arState)
    /\ UNCHANGED arState
    /\ UNCHANGED <<persistVars, backVars, sheetVars>>

-----------------------------------------------------------------------------
(* Spec: useNavigationPersistence(storage, persistenceKey) *)

NAVIGATION_PERSISTENCE_KEY == "NAVIGATION_STATE"
persistenceKey == NAVIGATION_PERSISTENCE_KEY
OtherKey == "OTHER"
Keys == {NAVIGATION_PERSISTENCE_KEY, OtherKey}
Policies == {"always", "dev", "prod", "bogus"}

\* storage.setItem(key, value): a whole-value overwrite
StorageSetItem(store, key, value) == [store EXCEPT ![key] = <<value>>]
\* storage.getItem(key, 'object'): the value, or nothing
StorageGetItem(store, key) == store[key]

\* TRUE disables the restoration
navigationRestoredDefaultState(persistNavigation, dev) ==
    IF persistNavigation = "always" THEN FALSE
    ELSE IF persistNavigation = "dev" /\ dev THEN FALSE
    ELSE IF persistNavigation = "prod" /\ ~dev THEN FALSE
    ELSE TRUE

OnlyPersist == UNCHANGED <<routeVars, backVars, sheetVars>>

PersistInit ==
    /\ policy \in Policies
    /\ isDev \in BOOLEAN
    /\ hookMounted = TRUE
    /\ isRestored = navigationRestoredDefaultState(policy, isDev)
    /\ initialNavigationState = <<>>
    /\ routeNameRef = NoName
    /\ effectPending = TRUE
    /\ readInFlight = FALSE
    /\ startupRestore = FALSE
    /\ readOutcome = "none"
    /\ rejected = FALSE
    /\ \E old \in {<<>>} \cup {<<s>> : s \in HostStates} :
           storage = [k \in Keys |-> IF k = persistenceKey THEN old ELSE <<>>]
    /\ delivered = <<>>
    /\ logged = NoName

PersistParked ==
    /\ policy = "bogus"
    /\ isDev = FALSE
    /\ hookMounted = FALSE
    /\ isRestored = TRUE
    /\ initialNavigationState = <<>>
    /\ routeNameRef = NoName
    /\ effectPending = FALSE
    /\ readInFlight = FALSE
    /\ startupRestore = FALSE
    /\ readOutcome = "none"
    /\ rejected = FALSE
    /\ storage = [k \in Keys |-> <<>>]
    /\ delivered = <<>>
    /\ logged = NoName

\* useEffect(() => { if (!isRestored && __DEV__) restoreState() }, [isRestored]):
\* restoreState runs up to its await of storage.getItem
RunEffect ==
    /\ hookMounted
    /\ effectPending
    /\ effectPending' = FALSE
    /\ readInFlight' = IF ~isRestored /\ isDev THEN TRUE ELSE readInFlight
    /\ startupRestore' = IF ~isRestored /\ isDev THEN TRUE ELSE startupRestore
    /\ UNCHANGED <<policy, isDev, hookMounted, isRestored, initialNavigationState,
                   routeNameRef, readOutcome, rejected, storage, delivered, logged>>
    /\ OnlyPersist

\* restoreState from the await on: the read returns (outcome "ok") or throws.
\* Without a catch clause the exception leaves restoreState after the finally
\* block: its promise rejects. React drops the state updates of an unmounted
\* component.
CompleteRead(outcome) ==
    /\ readInFlight
    /\ readInFlight' = FALSE
    /\ LET state == IF outcome = "ok"
                    THEN StorageGetItem(storage, persistenceKey)
                    ELSE <<>>
       IN  /\ initialNavigationState' =
                  IF state # <<>> /\ hookMounted THEN state ELSE initialNavigationState
           /\ readOutcome' = IF outcome # "ok" THEN "throw"
                             ELSE IF state # <<>> THEN "value" ELSE "absent"
    /\ isRestored' = IF hookMounted THEN TRUE ELSE isRestored
    /\ effectPending' = IF hookMounted /\ ~isRestored THEN TRUE ELSE effectPending
    /\ rejected' = IF outcome = "ok" THEN rejected ELSE TRUE
    /\ UNCHANGED <<policy, isDev, hookMounted, routeNameRef, startupRestore,
                   storage, delivered, logged>>
    /\ OnlyPersist

\* as onNavigationStateChange, but saving only when the route name changed
OnNavigationStateChange_OnlyOnChange(state) ==
    /\ hookMounted
    /\ LET previousRouteName == routeNameRef
           currentRouteName == getActiveRouteName(state)
       IN  /\ logged' = IF previousRouteName # currentRouteName /\ isDev
                        THEN currentRouteName
                        ELSE NoName
           /\ routeNameRef' = currentRouteName
           /\ storage' = IF previousRouteName # currentRouteName
                         THEN StorageSetItem(storage, persistenceKey, state)
                         ELSE storage
    /\ delivered' = <<state>>
    /\ UNCHANGED <<policy, isDev, hookMounted, isRestored, initialNavigationState,
                   effectPending, readInFlight, startupRestore, readOutcome, rejected>>
    /\ OnlyPersist

\* onNavigationStateChange(state), called by the navigation container
OnNavigationStateChange(state) ==
    /\ hookMounted
    /\ LET previousRouteName == routeNameRef
           currentRouteName == getActiveRouteName(state)
       IN  /\ logged' = IF previousRouteName # currentRouteName /\ isDev
                        THEN currentRouteName
                        ELSE NoName
           /\ routeNameRef' = currentRouteName
    /\ storage' = StorageSetItem(storage, persistenceKey, state)
    /\ delivered' = <<state>>
    /\ UNCHANGED <<policy, isDev, hookMounted, isRestored, initialNavigationState,
                   effectPending, readInFlight, startupRestore, readOutcome, rejected>>
    /\ OnlyPersist

\* the component that owns the hook unmounts: isMounted() turns false
Unmount ==
    /\ hookMounted
    /\ hookMounted' = FALSE
    /\ UNCHANGED <<policy, isDev, isRestored, initialNavigationState, routeNameRef,
                   effectPending, readInFlight, startupRestore, readOutcome, rejected,
                   storage, delivered, logged>>
    /\ OnlyPersist

-----------------------------------------------------------------------------
(* BackSpec: useBackButtonHandler(canExit), the RootNavigation handle and the *)
(* navigation host behind navigationRef                                     *)

Platforms == {"ios", "android"}
\* the exit predicates a render may pass
ExitPredicates == [ActiveNames -> BOOLEAN]
\* the predicate of the first render
NeverExit == [n \in ActiveNames |-> FALSE]
\* the host methods that act on the navigation state
NavActions == {"navigate", "goBack", "resetRoot", "dispatch"}
HandleOps == {"navigate", "goBack", "resetRoot", "canGoBack", "dispatch"}

\* no handler ran in the last step
Idle == [op |-> "none", calls |-> <<>>, route |-> NoName,
         exited |-> FALSE, handled |-> FALSE]
Did(op, calls) == [op |-> op, calls |-> calls, route |-> NoName,
                   exited |-> FALSE, handled |-> FALSE]

Calls(seq, names) == {i \in 1..Len(seq) : seq[i] \in names}
\* the calls reach the host's navigation state
Acts(seq) == Calls(seq, NavActions) # {}
\* a method other than isReady is called on a host that is not ready
Misuse(seq) == ~hostReady /\ Calls(seq, {"isReady"}) # DOMAIN seq

OnlyBack == UNCHANGED <<routeVars, persistVars, sheetVars>>

BackInit ==
    /\ platform \in Platforms
    /\ lifecycle = "init"
    /\ canExit = NeverExit
    /\ canExitRef = canExit
    /\ listeners = 0
    /\ addCalls = 0
    /\ removeCalls = 0
    /\ hostReady = FALSE
    /\ rootState = HomeState
    /\ hostCanGoBack = FALSE
    /\ hostMisuse = FALSE
    /\ appRunning = TRUE
    /\ last = Idle

BackParked ==
    /\ platform = "ios"
    /\ lifecycle = "unmounted"
    /\ canExit = NeverExit
    /\ canExitRef = canExit
    /\ listeners = 0
    /\ addCalls = 0
    /\ removeCalls = 0
    /\ hostReady = FALSE
    /\ rootState = HomeState
    /\ hostCanGoBack = FALSE
    /\ hostMisuse = FALSE
    /\ appRunning = FALSE
    /\ last = Idle

\* the handle's calls reach the host: when they act on a ready host its state
\* becomes `state` and canGoBack() becomes `back`
HostSees(record, state, back) ==
    /\ last' = record
    /\ hostMisuse' = (hostMisuse \/ Misuse(record.calls))
    /\ rootState' = IF hostReady /\ Acts(record.calls) THEN state ELSE rootState
    /\ hostCanGoBack' = IF hostReady /\ Acts(record.calls) THEN back ELSE hostCanGoBack
    /\ UNCHANGED <<platform, lifecycle, canExit, canExitRef, listeners, addCalls,
                   removeCalls, hostReady>>
    /\ OnlyBack

\* the NavigationContainer mounts its navigators: the ref becomes ready
HostBecomesReady(state, back) ==
    /\ appRunning
    /\ ~hostReady
    /\ hostReady' = TRUE
    /\ rootState' = state
    /\ hostCanGoBack' = back
    /\ last' = Idle
    /\ UNCHANGED <<platform, lifecycle, canExit, canExitRef, listeners, addCalls,
                   removeCalls, hostMisuse, appRunning>>
    /\ OnlyBack

\* the NavigationContainer unmounts
HostNotReady ==
    /\ appRunning
    /\ hostReady
    /\ hostReady' = FALSE
    /\ last' = Idle
    /\ UNCHANGED <<platform, lifecycle, canExit, canExitRef, listeners, addCalls,
                   removeCalls, rootState, hostCanGoBack, hostMisuse, appRunning>>
    /\ OnlyBack

\* the effects of the first render: canExitRef.current = canExit, then
\* BackHandler.addEventListener; on iOS the hook has returned before them
MountBack ==
    /\ appRunning
    /\ lifecycle = "init"
    /\ lifecycle' = "mounted"
    /\ canExitRef' = canExit
    /\ listeners' = IF platform = "ios" THEN listeners ELSE listeners + 1
    /\ addCalls' = IF platform = "ios" THEN addCalls ELSE addCalls + 1
    /\ last' = Idle
    /\ UNCHANGED <<platform, canExit, removeCalls, hostReady, rootState,
                   hostCanGoBack, hostMisuse, appRunning>>
    /\ OnlyBack

\* as a render with a new canExit whose effect does not reach the ref
SetCanExit_StaleRef(p) ==
    /\ appRunning
    /\ lifecycle = "mounted"
    /\ p # canExit
    /\ canExit' = p
    /\ last' = Idle
    /\ UNCHANGED <<platform, lifecycle, canExitRef, listeners, addCalls, removeCalls,
                   hostReady, rootState, hostCanGoBack, hostMisuse, appRunning>>
    /\ OnlyBack

\* a render with a new canExit together with its [canExit] effect (one commit
\* of React); the [] effect that holds the listener does not run again
SetCanExit(p) ==
    /\ appRunning
    /\ lifecycle = "mounted"
    /\ p # canExit
    /\ canExit' = p
    /\ canExitRef' = IF platform = "ios" THEN canExitRef ELSE p
    /\ last' = Idle
    /\ UNCHANGED <<platform, lifecycle, listeners, addCalls, removeCalls,
                   hostReady, rootState, hostCanGoBack, hostMisuse, appRunning>>
    /\ OnlyBack

\* the cleanup of the [] effect: BackHandler.removeEventListener
UnmountBack ==
    /\ appRunning
    /\ lifecycle = "mounted"
    /\ lifecycle' = "unmounted"
    /\ listeners' = IF platform = "ios" THEN listeners ELSE listeners - 1
    /\ removeCalls' = IF platform = "ios" THEN removeCalls ELSE removeCalls + 1
    /\ last' = Idle
    /\ UNCHANGED <<platform, canExit, canExitRef, addCalls, hostReady, rootState,
                   hostCanGoBack, hostMisuse, appRunning>>
    /\ OnlyBack

\* as onBackPress, but trying the back navigation before the exit predicate
OnBackPressRecord_GoBackFirst ==
    IF ~hostReady
    THEN Did("backPress", <<"isReady">>)
    ELSE LET routeName == getActiveRouteName(rootState)
         IN  IF hostCanGoBack
             THEN [op |-> "backPress",
                   calls |-> <<"isReady", "getRootState", "canGoBack", "goBack">>,
                   route |-> routeName, exited |-> FALSE, handled |-> TRUE]
             ELSE IF canExitRef[routeName]
             THEN [op |-> "backPress",
                   calls |-> <<"isReady", "getRootState", "canGoBack">>,
                   route |-> routeName, exited |-> TRUE, handled |-> TRUE]
             ELSE [op |-> "backPress",
                   calls |-> <<"isReady", "getRootState", "canGoBack">>,
                   route |-> routeName, exited |-> FALSE, handled |-> FALSE]

\* what onBackPress does: the host calls it makes, and its outcome
OnBackPressRecord ==
    IF ~hostReady
    THEN Did("backPress", <<"isReady">>)
    ELSE LET routeName == getActiveRouteName(rootState)
         IN  IF canExitRef[routeName]
             THEN [op |-> "backPress", calls |-> <<"isReady", "getRootState">>,
                   route |-> routeName, exited |-> TRUE, handled |-> TRUE]
             ELSE IF hostCanGoBack
             THEN [op |-> "backPress",
                   calls |-> <<"isReady", "getRootState", "canGoBack", "goBack">>,
                   route |-> routeName, exited |-> FALSE, handled |-> TRUE]
             ELSE [op |-> "backPress",
                   calls |-> <<"isReady", "getRootState", "canGoBack">>,
                   route |-> routeName, exited |-> FALSE, handled |-> FALSE]

\* a hardwareBackPress event reaches the registered listener
BackPress(state, back) ==
    /\ appRunning
    /\ listeners > 0
    /\ appRunning' = ~OnBackPressRecord.exited
    /\ HostSees(OnBackPressRecord, state, back)

\* as navigate, without the isReady guard
Navigate_Unguarded(state, back) ==
    /\ appRunning
    /\ HostSees(Did("navigate", <<"navigate">>), state, back)
    /\ UNCHANGED appRunning

\* navigate(name, params)
Navigate(state, back) ==
    /\ appRunning
    /\ HostSees(Did("navigate", IF hostReady THEN <<"isReady", "navigate">>
                                ELSE <<"isReady">>), state, back)
    /\ UNCHANGED appRunning

\* goBack()
GoBack(state, back) ==
    /\ appRunning
    /\ HostSees(Did("goBack", IF ~hostReady THEN <<"isReady">>
                              ELSE IF hostCanGoBack
                              THEN <<"isReady", "canGoBack", "goBack">>
                              ELSE <<"isReady", "canGoBack">>), state, back)
    /\ UNCHANGED appRunning

\* resetRoot(params)
ResetRoot(state, back) ==
    /\ appRunning
    /\ HostSees(Did("resetRoot", IF hostReady THEN <<"isReady", "resetRoot">>
                                 ELSE <<"isReady">>), state, back)
    /\ UNCHANGED appRunning

\* canGoBack()
CanGoBack ==
    /\ appRunning
    /\ HostSees(Did("canGoBack", IF hostReady THEN <<"isReady", "canGoBack">>
                                 ELSE <<"isReady">>), rootState, hostCanGoBack)
    /\ UNCHANGED appRunning

\* dispatch(action)
Dispatch(state, back) ==
    /\ appRunning
    /\ HostSees(Did("dispatch", IF hostReady THEN <<"isReady", "dispatch">>
                                ELSE <<"isReady">>), state, back)
    /\ UNCHANGED appRunning

-----------------------------------------------------------------------------
(* SheetSpec: BottomUpAnimation, the draggable sheet of the login screen.   *)
(* Offsets are sampled on a grid; scale.value is kept as scale/ScaleDivisor. *)

\* translateY.value = 300 in the entrance effect
EntranceOffset == 300
\* scale.value = 1 - event.translationY / 1000
ScaleDivisor == 1000

Abs(x) == IF x < 0 THEN -x ELSE x
\* the translations a move event reports
DragSet == {k * Grid : k \in -MaxDragSteps..MaxDragSteps}
\* the values an animation frame may show around a target
Frames(target) ==
    {target + k * Grid : k \in -((MaxOffset \div Grid) + 1)..((MaxOffset \div Grid) + 1)}

\* withTiming(target): a frame moves the value monotonically to the target
\* and the last frame sets it
TimingFrames(value, target) ==
    {x \in Frames(target) : Abs(x - target) < Abs(value - target)
                            /\ (x - target) * (value - target) >= 0}
        \cup {target}
\* withSpring(target): the frames follow the decaying envelope of the spring:
\* a frame may overshoot the target, each is closer to it than the one before,
\* and the last frame sets it
SpringFrames(value, target) ==
    {x \in Frames(target) : Abs(x - target) < Abs(value - target)} \cup {target}
NextFrames(anim, value, target) ==
    IF anim = "timing" THEN TimingFrames(value, target) ELSE SpringFrames(value, target)

OnlySheet == UNCHANGED <<routeVars, persistVars, backVars>>

\* useSharedValue(0), useSharedValue(1); no gesture has run
SheetInit ==
    /\ sheetMounted = FALSE
    /\ translateY = 0
    /\ scale = ScaleDivisor
    /\ startY = 0
    /\ phase = "idle"
    /\ animY = "none"
    /\ animS = "none"
    /\ ev = "none"
    /\ dy = 0

SheetParked == SheetInit

\* useEffect: translateY.value = 300; translateY.value = withTiming(0, ...)
MountEffect ==
    /\ ~sheetMounted
    /\ sheetMounted' = TRUE
    /\ translateY' = EntranceOffset
    /\ animY' = "timing"
    /\ ev' = "mount"
    /\ UNCHANGED <<scale, startY, phase, animS, dy>>
    /\ OnlySheet

\* onStart: ctx.startY = translateY.value
OnStart ==
    /\ sheetMounted
    /\ phase = "idle"
    /\ phase' = "active"
    /\ startY' = translateY
    /\ ev' = "start"
    /\ UNCHANGED <<sheetMounted, translateY, scale, animY, animS, dy>>
    /\ OnlySheet

\* as onActive, but never lifting the sheet above its resting position
OnActive_Clamped(translationY) ==
    /\ phase = "active"
    /\ Abs(startY + translationY) <= MaxOffset
    /\ translateY' = IF startY + translationY < 0 THEN 0 ELSE startY + translationY
    /\ scale' = IF translationY > 0 THEN ScaleDivisor - translationY ELSE ScaleDivisor
    /\ animY' = "none"
    /\ animS' = "none"
    /\ dy' = translationY
    /\ ev' = "move"
    /\ UNCHANGED <<sheetMounted, startY, phase>>
    /\ OnlySheet

\* onActive: the assignments replace the animations of both values
OnActive(translationY) ==
    /\ phase = "active"
    /\ Abs(startY + translationY) <= MaxOffset
    /\ translateY' = startY + translationY
    /\ scale' = IF translationY > 0 THEN ScaleDivisor - translationY ELSE ScaleDivisor
    /\ animY' = "none"
    /\ animS' = "none"
    /\ dy' = translationY
    /\ ev' = "move"
    /\ UNCHANGED <<sheetMounted, startY, phase>>
    /\ OnlySheet

\* as onEnd, but leaving the scale where the drag put it
OnEnd_KeepScale ==
    /\ phase = "active"
    /\ phase' = "idle"
    /\ animY' = "spring"
    /\ ev' = "end"
    /\ UNCHANGED <<sheetMounted, translateY, scale, startY, animS, dy>>
    /\ OnlySheet

\* onEnd: translateY.value = withSpring(0); scale.value = withSpring(1)
OnEnd ==
    /\ phase = "active"
    /\ phase' = "idle"
    /\ animY' = "spring"
    /\ animS' = "spring"
    /\ ev' = "end"
    /\ UNCHANGED <<sheetMounted, translateY, scale, startY, dy>>
    /\ OnlySheet

\* a frame of the animation of translateY (target 0)
TickY ==
    /\ animY # "none"
    /\ \E x \in NextFrames(animY, translateY, 0) :
           /\ translateY' = x
           /\ animY' = IF x = 0 THEN "none" ELSE animY
    /\ ev' = "tick"
    /\ UNCHANGED <<sheetMounted, scale, startY, phase, animS, dy>>
    /\ OnlySheet

\* a frame of the animation of scale (target 1)
TickScale ==
    /\ animS # "none"
    /\ \E x \in NextFrames(animS, scale, ScaleDivisor) :
           /\ scale' = x
           /\ animS' = IF x = ScaleDivisor THEN "none" ELSE animS
    /\ ev' = "tick"
    /\ UNCHANGED <<sheetMounted, translateY, startY, phase, animY, dy>>
    /\ OnlySheet

-----------------------------------------------------------------------------
(* The specifications *)

RouteSpecInit == RouteInit /\ PersistParked /\ BackParked /\ SheetParked
RouteNext == CallGetActiveRouteName
RouteSpec == RouteSpecInit /\ [][RouteNext]_vars

Init == RouteParked /\ PersistInit /\ BackParked /\ SheetParked
Next ==
    \/ RunEffect
    \/ \E outcome \in {"ok", "throw"} : CompleteRead(outcome)
    \/ \E state \in HostStates : OnNavigationStateChange(state)
    \/ Unmount
Spec == Init /\ [][Next]_vars
\* React runs a scheduled effect; a storage read settles
FairSpec ==
    /\ Spec
    /\ WF_vars(RunEffect)
    /\ WF_vars(\E outcome \in {"ok", "throw"} : CompleteRead(outcome))

BackNext ==
    \/ \E state \in HostStates, back \in BOOLEAN : HostBecomesReady(state, back)
    \/ HostNotReady
    \/ MountBack
    \/ \E p \in ExitPredicates : SetCanExit(p)
    \/ UnmountBack
    \/ \E state \in HostStates, back \in BOOLEAN : BackPress(state, back)
    \/ \E state \in HostStates, back \in BOOLEAN : Navigate(state, back)
    \/ \E state \in HostStates, back \in BOOLEAN : GoBack(state, back)
    \/ \E state \in HostStates, back \in BOOLEAN : ResetRoot(state, back)
    \/ CanGoBack
    \/ \E state \in HostStates, back \in BOOLEAN : Dispatch(state, back)
BackSpecInit == RouteParked /\ PersistParked /\ BackInit /\ SheetParked
BackSpec == BackSpecInit /\ [][BackNext]_vars

SheetNext ==
    \/ MountEffect
    \/ OnStart
    \/ \E translationY \in DragSet : OnActive(translationY)
    \/ OnEnd
    \/ TickY
    \/ TickScale
SheetSpecInit == RouteParked /\ PersistParked /\ BackParked /\ SheetInit
SheetSpec == SheetSpecInit /\ [][SheetNext]_vars
\* the UI thread renders the frames of a running animation
FairSheetSpec ==
    /\ SheetSpec
    /\ WF_vars(TickY)
    /\ WF_vars(TickScale)

-----------------------------------------------------------------------------
(* The properties *)

\* the route a state selects: the one at state.index, the first without index
Selected(state) == state.routes[IF state.index = NoIndex THEN 1 ELSE state.index + 1]
\* the name of the deepest selected leaf, by walking down the selected routes
DeepestSelectedLeaf(state) ==
    LET node[k \in 0..(MaxDepth + 1)] ==
            IF k = 0 THEN state
            ELSE IF Selected(node[k - 1]).state = <<>> THEN node[k - 1]
            ELSE Selected(node[k - 1]).state[1]
    IN  Selected(node[MaxDepth + 1]).name

\* the restore policy table: which (policy, build mode) pairs restore
PolicyTable(p, dev) == p = "always" \/ (p = "dev" /\ dev) \/ (p = "prod" /\ ~dev)

\* C1: once the startup effect has run, the hook has started the restore (the
\* read of the persisted state) exactly for the pairs of the policy table:
\* always in any build, dev in a development build, prod in a production build.
C1_RestoreFollowsPolicyTable ==
    ~effectPending => (startupRestore <=> PolicyTable(policy, isDev))

\* C2: whatever the policy, the build mode and the outcome of the read, the
\* isRestored flag of a hook that stays mounted eventually becomes true.
C2_EventuallyRestored == <>(isRestored \/ ~hookMounted)

\* C3: after a read that failed or found nothing, initialNavigationState is
\* unset, the flag of a mounted hook is set, and restoreState has not passed
\* the failure on to its caller (its promise has not rejected).
C3_ReadFailureContained ==
    readOutcome \in {"absent", "throw"} =>
        /\ initialNavigationState = <<>>
        /\ (hookMounted => isRestored)
        /\ ~rejected

\* the three outcomes of a back press, decided on the state before the press
BackPressTable ==
    LET routeName == getActiveRouteName(rootState)
    IN  /\ last'.route = routeName
        /\ IF canExitRef[routeName]
           THEN last'.exited /\ ~appRunning' /\ ~Acts(last'.calls)
           ELSE IF hostCanGoBack
           THEN /\ Cardinality(Calls(last'.calls, NavActions)) = 1
                /\ Cardinality(Calls(last'.calls, {"goBack"})) = 1
                /\ last'.handled /\ ~last'.exited /\ appRunning'
           ELSE ~Acts(last'.calls) /\ ~last'.handled /\ ~last'.exited /\ appRunning'

\* C4 as stated: every back press computes the active route name and then
\* exits when the predicate accepts the route, else goes back once and
\* reports handled when the host can go back, else does nothing and reports
\* not handled.
C4_EveryPressFollowsTable == [][last'.op = "backPress" => BackPressTable]_vars

\* C4 amended: a back press on a ready host follows the three-way table; a
\* back press on a host that is not ready calls nothing but isReady, consults
\* neither the route nor the predicate, acts on nothing and reports not handled.
C4_ReadyPressFollowsTable ==
    [][last'.op = "backPress" =>
          IF hostReady
          THEN BackPressTable
          ELSE /\ last'.calls = <<"isReady">>
               /\ last'.route = NoName
               /\ ~last'.handled /\ ~last'.exited /\ appRunning'
               /\ rootState' = rootState]_vars

C4_Witness ==
    /\ last.op = "backPress"
    /\ last.route = "Settings"
    /\ last.handled
    /\ ~last.exited
    /\ Calls(last.calls, {"goBack"}) # {}

\* the listener bookkeeping of a hook that registers: one listener from mount
\* to unmount, added once and removed only by the unmount
OneListener ==
    /\ lifecycle = "init" => listeners = 0 /\ addCalls = 0 /\ removeCalls = 0
    /\ lifecycle = "mounted" => listeners = 1 /\ addCalls = 1 /\ removeCalls = 0
    /\ lifecycle = "unmounted" => listeners = 0 /\ addCalls = 1 /\ removeCalls = 1
\* the back press of this step exits exactly when the predicate of the latest
\* render accepts the active route
NewestPredicate == last'.exited <=> canExit[getActiveRouteName(rootState)]

\* C5 as stated: whatever predicate changes and back presses happen, exactly
\* one listener is registered from mount to unmount, and every back press
\* consults the predicate of the latest render.
C5_OneListenerEverywhere ==
    /\ []OneListener
    /\ [][last'.op = "backPress" => NewestPredicate]_vars

\* C5 amended: one listener from mount to unmount on the platforms where the
\* hook registers one (every platform but iOS), and every back press on a
\* ready host consults the predicate of the latest render.
C5_NewestPredicateOneListener ==
    /\ [](platform # "ios" => OneListener)
    /\ [][(last'.op = "backPress" /\ hostReady) => NewestPredicate]_vars

\* the second part of C5 as stated, alone: refuted by a press on a host that
\* is not ready
C5_EveryPressConsults == [][last'.op = "backPress" => NewestPredicate]_vars

\* a press after the predicate was changed from the first render's NeverExit
C5_Witness ==
    /\ lifecycle = "mounted"
    /\ canExit # NeverExit
    /\ last.op = "backPress"
    /\ last.exited
    /\ listeners = 1 /\ addCalls = 1 /\ removeCalls = 0

Settled == translateY = 0 /\ scale = ScaleDivisor /\ animY = "none" /\ animS = "none"

\* C6: after every gesture end the sheet eventually rests at offset 0 and
\* scale 1 with no animation running, unless a new gesture starts first.
C6_SheetSettles == [](ev = "end" => <>(Settled \/ phase = "active"))

\* a release of a sheet dragged down, away from rest in offset and scale
C6_Witness ==
    /\ ev = "end"
    /\ translateY = 2 * Grid
    /\ scale = ScaleDivisor - 2 * Grid
    /\ animY = "spring"
    /\ animS = "spring"

\* C7: the start event captures the offset of that instant and changes
\* neither offset nor scale; every move event leaves the offset at the
\* captured one plus the translation, unclamped, and the scale at
\* 1 - translation/1000 for a downward translation and at 1 otherwise.
C7_DragTracksFinger ==
    /\ [][ev' = "start" =>
              startY' = translateY /\ translateY' = translateY /\ scale' = scale]_vars
    /\ [](ev = "move" =>
             /\ translateY = startY + dy
             /\ scale = IF dy > 0 THEN ScaleDivisor - dy ELSE ScaleDivisor)

\* an upward move of a drag that started while the entrance animation ran
C7_Witness ==
    /\ ev = "move"
    /\ startY = Grid
    /\ dy = -2 * Grid
    /\ translateY = -Grid
    /\ scale = ScaleDivisor

C9_NotReadyIsNoOp ==
    /\ ~hostMisuse
    /\ (last.op \in HandleOps /\ ~hostReady) => last.calls = <<"isReady">>

\* a handle call on a host that was ready and is no longer
C9_Witness ==
    /\ last.op = "dispatch"
    /\ ~hostReady
    /\ rootState = ExampleState
    /\ last.calls = <<"isReady">>

\* C10: getActiveRouteName returns the name of the deepest selected leaf: the
\* selected route's own name when it has no nested state, and "Settings" for
\* the documented example.
C10_DeepestSelectedLeaf ==
    arResult # NoName =>
        /\ arResult = DeepestSelectedLeaf(arState)
        /\ Selected(arState).state = <<>> => arResult = Selected(arState).name
        /\ arState = ExampleState => arResult = "Settings"

C10_Witness == arState = ExampleState /\ arResult = "Settings"

====
